---- MODULE Spec2Model ----
(***************************************************************************)
(* Model of zirv-db-sqlx: the process-wide, write-once MySQL pool          *)
(* (src/src/db.rs) and the transaction macros (src/src/lib.rs).            *)
(*                                                                         *)
(* Tasks are concurrent async callers; each task makes one call of the     *)
(* API (calls made one after the other by one thread are tasks that do     *)
(* not overlap).  An `.await` is a suspension point: the call parks, and   *)
(* the step that resumes it is the poll in which the awaited future        *)
(* returns Ready(Ok) or Ready(Err) and the code after the `.await` runs    *)
(* up to the next suspension, return or panic.  A panic ends the task      *)
(* that panicked and drops its locals.  A pool and a transaction are       *)
(* identified by the task whose call created them.                         *)
(***************************************************************************)
EXTENDS Integers, Sequences, FiniteSets

\* ---- bounds of the model ----
NumTasks == 3

\* ---- program constants ----
\* read_config!("database.max_connections", u32).unwrap_or(10)
DefaultMaxConnections == 10

Tasks == 1..NumTasks

\* Option<T>: None is the empty tuple, Some(v) the tuple of v
None == <<>>
Some(v) == <<v>>
Option(S) == {None} \cup {Some(v) : v \in S}

\* values the configuration provider may hold for the two keys
Urls == {"mysql://a", "mysql://b"}
MaxConnValues == {5}
Errors == {"e1", "e2"}

Configs == [url : Option(Urls), max_connections : Option(MaxConnValues)]

NoPool == 0
NoErr == "-"
NoOpts == [max_connections |-> 0, url |-> "-"]

\* Result<_, sqlx::Error> of an awaited driver call
Ok == [ok |-> TRUE, e |-> NoErr]
Err(e) == [ok |-> FALSE, e |-> e]
Results == {Ok} \cup {Err(e) : e \in Errors}
NoReply == [ok |-> TRUE, e |-> "none"]

VARIABLES
    config,     \* the configuration provider's "database" section
    DB_POOL,    \* static DB_POOL: OnceLock<Pool<MySql>>; NoPool = empty
    pools,      \* the live Pool<MySql> values, by the task that created them
    pc,         \* where each task is, and how its call ended
    op,         \* the call each task made: "init", "get" or "tx"
    opts,       \* init_db_pool locals: max_database_connections, database_url
    seen,       \* the &'static Pool the task got from get_db_pool
    reply,      \* the Result the task's last `.await` returned
    handles,    \* the Transaction each task's begin produced, and its state
    ret,        \* the Err(e) the enclosing function returned, if it did
    stderr,     \* the lines each task wrote with eprintln!
    calls,      \* the driver calls each task's function issued, in order
    db,         \* the database: the writes that are durable, by writer
    wrote,      \* whether the task's transaction holds a write of its own
    base,       \* the writing transactions that had ended when the task's
                \* begin returned
    rd          \* what the task's query in its transaction returned

vars == <<config, DB_POOL, pools, pc, op, opts, seen, reply,
          handles, ret, stderr, calls, db, wrote, base, rd>>

poolVars == <<DB_POOL, pools, opts, seen>>
dbVars == <<db, wrote, base, rd>>
txVars == <<handles, ret, stderr, calls, dbVars>>

Init ==
    /\ config \in Configs
    /\ DB_POOL = NoPool
    /\ pools = [t \in Tasks |-> NoOpts]
    /\ pc = [t \in Tasks |-> "idle"]
    /\ op = [t \in Tasks |-> "none"]
    /\ opts = [t \in Tasks |-> NoOpts]
    /\ seen = [t \in Tasks |-> NoPool]
    /\ reply = [t \in Tasks |-> NoReply]
    /\ handles = [t \in Tasks |-> "none"]
    /\ ret = [t \in Tasks |-> NoErr]
    /\ stderr = [t \in Tasks |-> <<>>]
    /\ calls = [t \in Tasks |-> <<>>]
    /\ db = {}
    /\ wrote = [t \in Tasks |-> FALSE]
    /\ base = [t \in Tasks |-> {}]
    /\ rd = [t \in Tasks |-> None]

\* ---- helpers ----

\* mutant of UnwrapOr: the configured value is ignored
UnwrapOr_AlwaysDefault(o, d) == d

\* the elements of a sequence
Range(q) == {q[i] : i \in 1..Len(q)}

\* Option::unwrap_or
UnwrapOr(o, d) == IF o = None THEN d ELSE o[1]

\* a task starts its call
Call(t, name) ==
    /\ pc[t] = "idle"
    /\ op' = [op EXCEPT ![t] = name]

\* a panic unwinds the task: it never runs again
Panic(t, why) == pc' = [pc EXCEPT ![t] = why]

\* ---- configuration provider ----

\* register_config!("database", DatabaseConfig { .. })
SetConfig(c) ==
    /\ c # config
    /\ config' = c
    /\ UNCHANGED <<pc, op, reply, poolVars, txVars>>

\* ---- init_db_pool ----

\* mutant of InitStart: a missing URL is noticed only by the driver
\* (unwrap_or_default instead of unwrap)
InitStart_UrlNotChecked(t) ==
    /\ Call(t, "init")
    /\ opts' = [opts EXCEPT ![t] =
           [max_connections |-> UnwrapOr(config.max_connections, DefaultMaxConnections),
            url |-> IF config.url = None THEN "" ELSE config.url[1]]]
    /\ pc' = [pc EXCEPT ![t] = "init_connect"]
    /\ UNCHANGED <<config, DB_POOL, pools, seen, reply, txVars>>

\* mutant of InitStart: the slot is tested on entry, before the
\* configuration is read and before any connect
InitStart_CheckFirst(t) ==
    /\ Call(t, "init")
    /\ IF DB_POOL # NoPool
       THEN /\ Panic(t, "panic_already_init")
            /\ UNCHANGED opts
       ELSE IF config.url = None
            THEN /\ Panic(t, "panic_no_url")
                 /\ UNCHANGED opts
            ELSE /\ opts' = [opts EXCEPT ![t] =
                        [max_connections |->
                             UnwrapOr(config.max_connections, DefaultMaxConnections),
                         url |-> config.url[1]]]
                 /\ pc' = [pc EXCEPT ![t] = "init_connect"]
    /\ UNCHANGED <<config, DB_POOL, pools, seen, reply, txVars>>

\* lines 19-25: read both keys, build the pool options, start connecting
InitStart(t) ==
    /\ Call(t, "init")
    /\ LET max_database_connections ==
               UnwrapOr(config.max_connections, DefaultMaxConnections)
           database_url == config.url
       IN  IF database_url = None
           THEN /\ Panic(t, "panic_no_url")
                /\ UNCHANGED opts
           ELSE /\ opts' = [opts EXCEPT ![t] =
                       [max_connections |-> max_database_connections,
                        url |-> database_url[1]]]
                /\ pc' = [pc EXCEPT ![t] = "init_connect"]
    /\ UNCHANGED <<config, DB_POOL, pools, seen, reply, txVars>>

\* mutant of OnceLockSet: the result of set is dropped (let _ = ..)
OnceLockSet_Silent(t, pool) ==
    /\ IF DB_POOL = NoPool
       THEN /\ DB_POOL' = t
            /\ pools' = [pools EXCEPT ![t] = pool]
       ELSE UNCHANGED <<DB_POOL, pools>>
    /\ pc' = [pc EXCEPT ![t] = "init_ok"]

\* mutant of OnceLockSet: a plain store, the last writer wins
OnceLockSet_Overwrite(t, pool) ==
    /\ DB_POOL' = t
    /\ pools' = [pools EXCEPT ![t] = pool]
    /\ pc' = [pc EXCEPT ![t] = "init_ok"]

\* mutant of OnceLockSet: a Once that an earlier panicking initialisation
\* has poisoned
OnceLockSet_Poisoned(t, pool) ==
    IF DB_POOL = NoPool
       /\ \A u \in Tasks : pc[u] \notin {"panic_no_url", "panic_connect"}
    THEN /\ DB_POOL' = t
         /\ pools' = [pools EXCEPT ![t] = pool]
         /\ pc' = [pc EXCEPT ![t] = "init_ok"]
    ELSE /\ Panic(t, "panic_already_init")
         /\ UNCHANGED <<DB_POOL, pools>>

\* OnceLock::set followed by expect: the first value stays; a second set
\* hands the value back in Err, expect panics and the value is dropped
OnceLockSet(t, pool) ==
    IF DB_POOL = NoPool
    THEN /\ DB_POOL' = t
         /\ pools' = [pools EXCEPT ![t] = pool]
         /\ pc' = [pc EXCEPT ![t] = "init_ok"]
    ELSE /\ Panic(t, "panic_already_init")
         /\ UNCHANGED <<DB_POOL, pools>>

\* mutant of InitResume: a failed connect is not fatal, the pool is installed
\* unconnected (connect_lazy as a fallback)
InitResume_IgnoreConnectError(t, res) ==
    /\ pc[t] = "init_connect"
    /\ reply' = [reply EXCEPT ![t] = res]
    /\ IF DB_POOL = NoPool
       THEN /\ DB_POOL' = t
            /\ pools' = [pools EXCEPT ![t] = opts[t]]
            /\ pc' = [pc EXCEPT ![t] = "init_ok"]
       ELSE /\ Panic(t, "panic_already_init")
            /\ UNCHANGED <<DB_POOL, pools>>
    /\ opts' = [opts EXCEPT ![t] = NoOpts]
    /\ UNCHANGED <<config, op, seen, txVars>>

\* lines 25-31: connect(..).await is ready with Ok(pool) or Err, then the
\* code after the `.await` runs
InitResume(t, res) ==
    /\ pc[t] = "init_connect"
    /\ reply' = [reply EXCEPT ![t] = res]
    /\ IF res.ok
       THEN OnceLockSet(t, opts[t])
       ELSE /\ Panic(t, "panic_connect")
            /\ UNCHANGED <<DB_POOL, pools>>
    /\ opts' = [opts EXCEPT ![t] = NoOpts]
    /\ UNCHANGED <<config, op, seen, txVars>>

\* ---- get_db_pool ----

\* mutant of GetDbPool: the test of the slot is inverted
GetDbPool_Inverted(t) ==
    /\ Call(t, "get")
    /\ IF DB_POOL # NoPool
       THEN /\ Panic(t, "panic_not_init")
            /\ UNCHANGED seen
       ELSE /\ seen' = [seen EXCEPT ![t] = DB_POOL]
            /\ pc' = [pc EXCEPT ![t] = "got"]
    /\ UNCHANGED <<config, DB_POOL, pools, opts, reply, txVars>>

\* mutant of GetDbPool: an empty slot is not fatal, the caller gets a
\* reference to nothing
GetDbPool_NoExpect(t) ==
    /\ Call(t, "get")
    /\ seen' = [seen EXCEPT ![t] = DB_POOL]
    /\ pc' = [pc EXCEPT ![t] = "got"]
    /\ UNCHANGED <<config, DB_POOL, pools, opts, reply, txVars>>

\* mutant of GetDbPool: OnceLock::wait, the caller blocks until the slot
\* is set
GetDbPool_Wait(t) ==
    /\ \/ Call(t, "get")
       \/ pc[t] = "get_wait" /\ UNCHANGED op
    /\ IF DB_POOL = NoPool
       THEN /\ pc' = [pc EXCEPT ![t] = "get_wait"]
            /\ UNCHANGED seen
       ELSE /\ seen' = [seen EXCEPT ![t] = DB_POOL]
            /\ pc' = [pc EXCEPT ![t] = "got"]
    /\ UNCHANGED <<config, DB_POOL, pools, opts, reply, txVars>>

\* lines 41-45: OnceLock::get followed by expect
GetDbPool(t) ==
    /\ Call(t, "get")
    /\ IF DB_POOL = NoPool
       THEN /\ Panic(t, "panic_not_init")
            /\ UNCHANGED seen
       ELSE /\ seen' = [seen EXCEPT ![t] = DB_POOL]
            /\ pc' = [pc EXCEPT ![t] = "got"]
    /\ UNCHANGED <<config, DB_POOL, pools, opts, reply, txVars>>

\* ---- the transaction macros, in a function shaped like the doc examples:
\*      let mut tx = start_transaction!(); ..; commit_transaction!(tx)
\*      (or rollback_transaction!(tx)); Ok(()) ----

\* mutant of LogAndReturn: the error is logged and execution goes on
LogAndReturn_Swallow(t, msg, e) ==
    /\ stderr' = [stderr EXCEPT ![t] = Append(@, [msg |-> msg, e |-> e])]
    /\ pc' = [pc EXCEPT ![t] = "tx_done"]
    /\ UNCHANGED ret

\* the Err arm of the three macros: eprintln!(msg, e); return Err(e)
LogAndReturn(t, msg, e) ==
    /\ stderr' = [stderr EXCEPT ![t] = Append(@, [msg |-> msg, e |-> e])]
    /\ ret' = [ret EXCEPT ![t] = e]
    /\ pc' = [pc EXCEPT ![t] = "ret_err"]

\* ---- the database behind the driver ----

\* the states of a transaction that a commit or rollback has ended
Ended == {"committed", "rolledback", "failed"}

\* begin returned Ok: the transaction starts after those that have ended
DbBegin(t) ==
    base' = [base EXCEPT ![t] =
        {u \in Tasks : handles[u] \in Ended /\ "execute" \in Range(calls[u])}]

\* commit: on Ok the writes of the transaction become durable; a commit
\* that returned Err made nothing durable
DbCommit(t, res) ==
    /\ db' = IF res.ok /\ wrote[t] THEN db \cup {t} ELSE db
    /\ wrote' = [wrote EXCEPT ![t] = FALSE]

\* rollback: the writes of the transaction are discarded, also when the
\* call returned Err (the transaction was never committed)
DbRollback(t, res) ==
    /\ db' = db
    /\ wrote' = [wrote EXCEPT ![t] = FALSE]

\* the driver call that ends the transaction takes effect in the database
DbTerminal(t, res) ==
    IF calls[t] # <<>> /\ calls[t][Len(calls[t])] = "commit"
    THEN DbCommit(t, res)
    ELSE DbRollback(t, res)

\* what a query inside transaction t may return: its own write, every
\* durable write of a transaction that had ended when t began, and any of
\* what became durable since (the isolation level is the server's choice)
Visible(t) ==
    LET own == IF wrote[t] THEN {t} ELSE {}
    IN  {S \in SUBSET (db \cup own) : (base[t] \cap db) \cup own \subseteq S}

\* the task's function hands a call to the driver
Issue(t, call) == calls' = [calls EXCEPT ![t] = Append(@, call)]

\* mutant of StartTransaction: an empty slot is reported like a failed
\* begin, with a log line and Err
StartTransaction_Recoverable(t) ==
    /\ Call(t, "tx")
    /\ IF DB_POOL = NoPool
       THEN /\ stderr' = [stderr EXCEPT ![t] =
                   Append(@, [msg |-> "Failed to start transaction", e |-> "e1"])]
            /\ ret' = [ret EXCEPT ![t] = "e1"]
            /\ pc' = [pc EXCEPT ![t] = "ret_err"]
            /\ UNCHANGED calls
       ELSE /\ Issue(t, "begin")
            /\ pc' = [pc EXCEPT ![t] = "tx_begin"]
            /\ UNCHANGED <<ret, stderr>>
    /\ UNCHANGED <<config, reply, poolVars, handles, dbVars>>

\* start_transaction!, up to the `.await`: get_db_pool().begin()
StartTransaction(t) ==
    /\ Call(t, "tx")
    /\ IF DB_POOL = NoPool
       THEN /\ Panic(t, "panic_not_init")
            /\ UNCHANGED calls
       ELSE /\ Issue(t, "begin")
            /\ pc' = [pc EXCEPT ![t] = "tx_begin"]
    /\ UNCHANGED <<config, reply, poolVars, handles, ret, stderr, dbVars>>

\* mutant of StartResume: a failed begin is tried once more before the
\* error is reported
StartResume_RetryOnce(t, res) ==
    /\ pc[t] = "tx_begin"
    /\ reply' = [reply EXCEPT ![t] = res]
    /\ IF res.ok
       THEN /\ handles' = [handles EXCEPT ![t] = "active"]
            /\ pc' = [pc EXCEPT ![t] = "tx_active"]
            /\ DbBegin(t)
            /\ UNCHANGED <<ret, stderr, calls>>
       ELSE IF Len(calls[t]) < 2
            THEN /\ Issue(t, "begin")
                 /\ UNCHANGED <<pc, handles, base, ret, stderr>>
            ELSE /\ LogAndReturn(t, "Failed to start transaction", res.e)
                 /\ UNCHANGED <<handles, base, calls>>
    /\ UNCHANGED <<config, op, poolVars, db, wrote, rd>>

\* start_transaction!, the match on the result of begin().await
StartResume(t, res) ==
    /\ pc[t] = "tx_begin"
    /\ reply' = [reply EXCEPT ![t] = res]
    /\ IF res.ok
       THEN /\ handles' = [handles EXCEPT ![t] = "active"]
            /\ pc' = [pc EXCEPT ![t] = "tx_active"]
            /\ DbBegin(t)
            /\ UNCHANGED <<ret, stderr>>
       ELSE /\ LogAndReturn(t, "Failed to start transaction", res.e)
            /\ UNCHANGED <<handles, base>>
    /\ UNCHANGED <<config, op, poolVars, calls, db, wrote, rd>>

\* mutant of CommitTransaction: the macro body was copied from
\* rollback_transaction! and still calls rollback
CommitTransaction_IssuesRollback(t) ==
    /\ pc[t] = "tx_active"
    /\ Issue(t, "rollback")
    /\ pc' = [pc EXCEPT ![t] = "tx_commit"]
    /\ UNCHANGED <<config, op, reply, poolVars, handles, ret, stderr, dbVars>>

\* commit_transaction!, up to the `.await`: $tx.commit() takes the handle
CommitTransaction(t) ==
    /\ pc[t] = "tx_active"
    /\ Issue(t, "commit")
    /\ pc' = [pc EXCEPT ![t] = "tx_commit"]
    /\ UNCHANGED <<config, op, reply, poolVars, handles, ret, stderr, dbVars>>

\* mutant of CommitResume: commit borrows the handle, and after a failed
\* commit the function returns with the transaction still open
CommitResume_KeepsHandle(t, res) ==
    /\ pc[t] = "tx_commit"
    /\ reply' = [reply EXCEPT ![t] = res]
    /\ IF res.ok
       THEN /\ handles' = [handles EXCEPT ![t] = "committed"]
            /\ pc' = [pc EXCEPT ![t] = "tx_done"]
            /\ DbTerminal(t, res)
            /\ UNCHANGED <<ret, stderr>>
       ELSE /\ LogAndReturn(t, "Failed to commit transaction", res.e)
            /\ UNCHANGED <<handles, db, wrote>>
    /\ UNCHANGED <<config, op, poolVars, calls, base, rd>>

\* mutant of CommitResume: commit borrows the handle, and after a failed
\* commit the error is logged and the function goes on with the handle
CommitResume_Reusable(t, res) ==
    /\ pc[t] = "tx_commit"
    /\ reply' = [reply EXCEPT ![t] = res]
    /\ IF res.ok
       THEN /\ handles' = [handles EXCEPT ![t] = "committed"]
            /\ pc' = [pc EXCEPT ![t] = "tx_done"]
            /\ DbTerminal(t, res)
            /\ UNCHANGED <<ret, stderr>>
       ELSE /\ stderr' = [stderr EXCEPT ![t] =
                   Append(@, [msg |-> "Failed to commit transaction", e |-> res.e])]
            /\ pc' = [pc EXCEPT ![t] = IF Len(calls[t]) < 4 THEN "tx_active" ELSE "ret_err"]
            /\ UNCHANGED <<handles, ret, db, wrote>>
    /\ UNCHANGED <<config, op, poolVars, calls, base, rd>>

\* commit_transaction!, the match on the result of commit().await
CommitResume(t, res) ==
    /\ pc[t] = "tx_commit"
    /\ reply' = [reply EXCEPT ![t] = res]
    /\ IF res.ok
       THEN /\ handles' = [handles EXCEPT ![t] = "committed"]
            /\ pc' = [pc EXCEPT ![t] = "tx_done"]
            /\ UNCHANGED <<ret, stderr>>
       ELSE /\ handles' = [handles EXCEPT ![t] = "failed"]
            /\ LogAndReturn(t, "Failed to commit transaction", res.e)
    /\ DbTerminal(t, res)
    /\ UNCHANGED <<config, op, poolVars, calls, base, rd>>

\* rollback_transaction!, up to the `.await`: $tx.rollback() takes the handle
RollbackTransaction(t) ==
    /\ pc[t] = "tx_active"
    /\ Issue(t, "rollback")
    /\ pc' = [pc EXCEPT ![t] = "tx_rollback"]
    /\ UNCHANGED <<config, op, reply, poolVars, handles, ret, stderr, dbVars>>

\* rollback_transaction!, the match on the result of rollback().await
RollbackResume(t, res) ==
    /\ pc[t] = "tx_rollback"
    /\ reply' = [reply EXCEPT ![t] = res]
    /\ IF res.ok
       THEN /\ handles' = [handles EXCEPT ![t] = "rolledback"]
            /\ pc' = [pc EXCEPT ![t] = "tx_done"]
            /\ UNCHANGED <<ret, stderr>>
       ELSE /\ handles' = [handles EXCEPT ![t] = "failed"]
            /\ LogAndReturn(t, "Failed to rollback transaction", res.e)
    /\ DbTerminal(t, res)
    /\ UNCHANGED <<config, op, poolVars, calls, base, rd>>

\* "Execute operations within the transaction...": one write
TxWrite(t) ==
    /\ pc[t] = "tx_active"
    /\ "execute" \notin Range(calls[t])
    /\ Issue(t, "execute")
    /\ wrote' = [wrote EXCEPT ![t] = TRUE]
    /\ UNCHANGED <<config, pc, op, reply, poolVars, handles, ret, stderr,
                   db, base, rd>>

\* "Execute operations within the transaction...": one query
TxRead(t) ==
    /\ pc[t] = "tx_active"
    /\ "query" \notin Range(calls[t])
    /\ Issue(t, "query")
    /\ \E S \in Visible(t) : rd' = [rd EXCEPT ![t] = Some(S)]
    /\ UNCHANGED <<config, pc, op, reply, poolVars, handles, ret, stderr,
                   db, wrote, base>>

\* the Ok(()) that ends the enclosing function
FnReturnOk(t) ==
    /\ pc[t] = "tx_done"
    /\ pc' = [pc EXCEPT ![t] = "ret_ok"]
    /\ UNCHANGED <<config, op, reply, poolVars, txVars>>

Next ==
    \/ \E c \in Configs : SetConfig(c)
    \/ \E t \in Tasks : InitStart(t)
    \/ \E t \in Tasks, res \in Results : InitResume(t, res)
    \/ \E t \in Tasks : GetDbPool(t)
    \/ \E t \in Tasks : StartTransaction(t)
    \/ \E t \in Tasks, res \in Results : StartResume(t, res)
    \/ \E t \in Tasks : CommitTransaction(t)
    \/ \E t \in Tasks, res \in Results : CommitResume(t, res)
    \/ \E t \in Tasks : RollbackTransaction(t)
    \/ \E t \in Tasks, res \in Results : RollbackResume(t, res)
    \/ \E t \in Tasks : FnReturnOk(t)

Spec == Init /\ [][Next]_vars

\* ---- the same program with statements inside the transactions, under one
\* valid configuration ----

InitTx ==
    /\ Init
    /\ config = [url |-> Some("mysql://a"), max_connections |-> None]

\* one error value is enough where the claims do not compare errors
TxResults == {Ok, Err("e1")}

NextTx ==
    \/ \E t \in Tasks : InitStart(t)
    \/ \E t \in Tasks, res \in TxResults : InitResume(t, res)
    \/ \E t \in Tasks : StartTransaction(t)
    \/ \E t \in Tasks, res \in TxResults : StartResume(t, res)
    \/ \E t \in Tasks : TxWrite(t)
    \/ \E t \in Tasks : TxRead(t)
    \/ \E t \in Tasks : CommitTransaction(t)
    \/ \E t \in Tasks, res \in TxResults : CommitResume(t, res)
    \/ \E t \in Tasks : RollbackTransaction(t)
    \/ \E t \in Tasks, res \in TxResults : RollbackResume(t, res)
    \/ \E t \in Tasks : FnReturnOk(t)

SpecTx == InitTx /\ [][NextTx]_vars

\* ---- steps, as seen from outside ----

\* task t starts a call of the named operation in this step
Starts(t, name) == pc[t] = "idle" /\ op[t] = "none" /\ op'[t] = name

\* task t's init_db_pool call leaves its `.await` in this step
InitResumes(t) == pc[t] = "init_connect" /\ pc'[t] # "init_connect"

InitPanics == {"panic_no_url", "panic_connect", "panic_already_init"}

\* ---- claims ----

\* C1: of the init_db_pool calls that race, at most one populates DB_POOL
\* and returns normally; every other call whose connect succeeded ends in
\* the 'already initialized' panic; all get_db_pool callers see one pool.
C1_RacingInits ==
    /\ Cardinality({t \in Tasks : pc[t] = "init_ok"}) <= 1
    /\ \A t \in Tasks : pc[t] = "init_ok" => DB_POOL = t
    /\ \A t \in Tasks :
          (op[t] = "init" /\ reply[t] = Ok /\ DB_POOL # t)
              => pc[t] = "panic_already_init"
    /\ \A t, u \in Tasks :
          (seen[t] # NoPool /\ seen[u] # NoPool) => seen[t] = seen[u]

C1_Witness ==
    \E t, u, g \in Tasks :
        /\ pc[t] = "init_ok" /\ DB_POOL = t
        /\ pc[u] = "panic_already_init" /\ reply[u] = Ok
        /\ pc[g] = "got" /\ seen[g] = t

\* C2: once an init_db_pool call has completed successfully, every
\* get_db_pool call returns normally, and returns the pool that call created.
C2_GetAfterInit ==
    /\ [](\A t \in Tasks : pc[t] = "got" =>
              /\ seen[t] = DB_POOL
              /\ seen[t] # NoPool
              /\ pc[seen[t]] = "init_ok"
              /\ pools[seen[t]] # NoOpts)
    /\ [][\A t \in Tasks : (Starts(t, "get") /\ DB_POOL # NoPool) =>
              (pc'[t] = "got" /\ seen'[t] = DB_POOL)]_vars

C2_Witness ==
    \E t, u, i \in Tasks :
        /\ t # u
        /\ pc[i] = "init_ok"
        /\ pc[t] = "got" /\ pc[u] = "got"
        /\ seen[t] = i /\ seen[u] = i

\* C3: a step of an init_db_pool call made while DB_POOL is already
\* populated never returns normally, whatever the configuration: the call
\* ends in a panic, and DB_POOL keeps the pool of the first call.
C3_SecondInitFatal ==
    [][\A t \in Tasks :
          ((Starts(t, "init") \/ InitResumes(t)) /\ DB_POOL # NoPool) =>
              /\ pc'[t] \in InitPanics \cup {"init_connect"}
              /\ InitResumes(t) => pc'[t] \in InitPanics
              /\ (InitResumes(t) /\ reply'[t].ok) => pc'[t] = "panic_already_init"
              /\ DB_POOL' = DB_POOL
              /\ pools'[DB_POOL] = pools[DB_POOL]]_vars

C3_Witness ==
    \E t, u, v \in Tasks :
        /\ DB_POOL = t /\ pc[t] = "init_ok"
        /\ pc[u] = "panic_already_init"
        /\ pc[v] = "init_connect"
        /\ opts[v].url # pools[t].url
        /\ opts[v].max_connections # pools[t].max_connections

\* C4: while no init_db_pool call has completed successfully, a get_db_pool
\* call panics and hands out no pool reference.
C4_GetBeforeInitFatal ==
    [][\A t \in Tasks : (Starts(t, "get") /\ DB_POOL = NoPool) =>
          (pc'[t] = "panic_not_init" /\ seen'[t] = NoPool)]_vars

C4_Witness ==
    \E t, u \in Tasks :
        /\ op[t] = "get" /\ pc[t] = "panic_not_init" /\ seen[t] = NoPool
        /\ pc[u] \in {"panic_connect", "panic_no_url"}
        /\ DB_POOL = NoPool

\* C5: DB_POOL is write-once: it is empty or holds one pool, and once it
\* holds a pool no step changes it or the pool it holds.
C5_WriteOnce ==
    /\ [](/\ DB_POOL \in {NoPool} \cup Tasks
          /\ DB_POOL # NoPool => pools[DB_POOL] # NoOpts)
    /\ [][DB_POOL # NoPool =>
              (DB_POOL' = DB_POOL /\ pools'[DB_POOL] = pools[DB_POOL])]_vars

C5_Witness ==
    \E t, u, v \in Tasks :
        /\ DB_POOL = t
        /\ pc[u] \in {"panic_already_init", "panic_connect"}
        /\ handles[v] \in {"committed", "rolledback", "failed"}

\* C6: get_db_pool never waits for an init_db_pool call in flight: called
\* while the slot is still empty it panics in that same step.
C6_GetNeverWaits ==
    /\ [](\A t \in Tasks : op[t] = "get" => pc[t] \in {"got", "panic_not_init"})
    /\ [][\A t \in Tasks :
              (/\ Starts(t, "get")
               /\ DB_POOL = NoPool
               /\ \E u \in Tasks : pc[u] = "init_connect")
                  => pc'[t] = "panic_not_init"]_vars

C6_Witness ==
    \E t, u \in Tasks :
        /\ op[t] = "get" /\ pc[t] = "panic_not_init"
        /\ pc[u] = "init_connect"
        /\ DB_POOL = NoPool

\* C7: with database.url absent, init_db_pool panics in the step that reads
\* the configuration: no connect is started and DB_POOL is unchanged.
C7_MissingUrlFatal ==
    [][\A t \in Tasks : (Starts(t, "init") /\ config.url = None) =>
          /\ pc'[t] = "panic_no_url"
          /\ reply'[t] = NoReply
          /\ DB_POOL' = DB_POOL
          /\ pools' = pools]_vars

C7_Witness ==
    \E t \in Tasks :
        /\ pc[t] = "panic_no_url" /\ reply[t] = NoReply
        /\ config.url = None
        /\ DB_POOL = NoPool

\* C8: when the connect of init_db_pool fails, the call panics, DB_POOL is
\* unchanged and no pool of that call becomes visible.
C8_ConnectFailureFatal ==
    /\ [](\A t \in Tasks : (op[t] = "init" /\ ~reply[t].ok) =>
              (pc[t] = "panic_connect" /\ DB_POOL # t /\ pools[t] = NoOpts))
    /\ [][\A t \in Tasks : (InitResumes(t) /\ ~reply'[t].ok) =>
              (DB_POOL' = DB_POOL /\ pools' = pools /\ seen' = seen)]_vars

C8_Witness ==
    \E t, u \in Tasks :
        /\ pc[t] = "panic_connect" /\ ~reply[t].ok
        /\ op[u] = "get" /\ pc[u] = "panic_not_init"
        /\ DB_POOL = NoPool

\* C9: the pool init_db_pool creates has the cap database.max_connections
\* had when the call read the configuration, and 10 when the key was absent.
C9_MaxConnections ==
    [][\A t \in Tasks :
          /\ (Starts(t, "init") /\ pc'[t] = "init_connect") =>
                opts'[t].max_connections =
                    IF config.max_connections = None
                    THEN 10
                    ELSE config.max_connections[1]
          /\ (pc[t] = "init_connect" /\ pc'[t] = "init_connect") =>
                opts'[t] = opts[t]
          /\ (InitResumes(t) /\ DB_POOL' = t /\ DB_POOL # t) =>
                pools'[t].max_connections = opts[t].max_connections]_vars

C9_Witness ==
    \E t \in Tasks :
        /\ DB_POOL = t
        /\ pools[t].max_connections = 10
        /\ config.max_connections = Some(5)

\* the diagnostic each macro prints
Diagnostic(at) ==
    CASE at = "tx_begin" -> "Failed to start transaction"
      [] at = "tx_commit" -> "Failed to commit transaction"
      [] at = "tx_rollback" -> "Failed to rollback transaction"

\* C10: in each of the three macros, an Err(e) of the underlying call writes
\* one line to stderr and makes the enclosing function return Err(e) with
\* that e; an Ok logs nothing and execution goes on.
C10_ErrorsPropagate ==
    [][\A t \in Tasks :
          (pc[t] \in {"tx_begin", "tx_commit", "tx_rollback"} /\ pc'[t] # pc[t]) =>
              IF reply'[t].ok
              THEN /\ stderr' = stderr
                   /\ ret' = ret
                   /\ pc'[t] = IF pc[t] = "tx_begin" THEN "tx_active" ELSE "tx_done"
              ELSE /\ stderr'[t] = Append(stderr[t],
                                          [msg |-> Diagnostic(pc[t]), e |-> reply'[t].e])
                   /\ \A u \in Tasks \ {t} : stderr'[u] = stderr[u]
                   /\ ret'[t] = reply'[t].e
                   /\ pc'[t] = "ret_err"]_vars

C10_Witness ==
    \E t, u \in Tasks :
        /\ pc[t] = "ret_err" /\ handles[t] = "failed" /\ ret[t] = "e2"
        /\ stderr[t] = <<[msg |-> "Failed to commit transaction", e |-> "e2"]>>
        /\ pc[u] = "ret_err" /\ handles[u] = "none" /\ ret[u] = "e1"
        /\ stderr[u] = <<[msg |-> "Failed to start transaction", e |-> "e1"]>>

\* C14: init_db_pool reads the configuration, connects, and only then
\* writes DB_POOL: a call made with the slot populated still starts its
\* connect, and it ends in 'already initialized' only if that connect
\* succeeded; otherwise it ends in the configuration or connect panic.
C14_InitOrder ==
    [][\A t \in Tasks :
          /\ (Starts(t, "init") /\ DB_POOL # NoPool) =>
                pc'[t] = IF config.url = None THEN "panic_no_url" ELSE "init_connect"
          /\ (Starts(t, "init") \/ pc[t] = "idle") => pc'[t] # "panic_already_init"
          /\ (InitResumes(t) /\ DB_POOL # NoPool) =>
                pc'[t] = IF reply'[t].ok THEN "panic_already_init" ELSE "panic_connect"
          /\ pc'[t] = "init_ok" /\ pc[t] # "init_ok" => pc[t] = "init_connect"]_vars

C14_Witness ==
    \E t, u, v \in Tasks :
        /\ DB_POOL = t
        /\ pc[u] = "panic_already_init" /\ reply[u] = Ok
        /\ pc[v] = "init_connect" /\ opts[v] # NoOpts

\* C15: an init_db_pool call that failed on an empty slot (missing URL or
\* failed connect) leaves the slot empty, and a later call whose connect
\* succeeds on the still empty slot populates it and returns normally.
C15_FailedInitNotFinal ==
    /\ [][\A t \in Tasks :
              ((Starts(t, "init") \/ InitResumes(t))
               /\ pc'[t] \in {"panic_no_url", "panic_connect"}) =>
                  DB_POOL' = DB_POOL]_vars
    /\ [][\A t \in Tasks :
              (/\ InitResumes(t) /\ reply'[t].ok
               /\ DB_POOL = NoPool
               /\ \E u \in Tasks : pc[u] \in {"panic_no_url", "panic_connect"})
                  => (pc'[t] = "init_ok" /\ DB_POOL' = t)]_vars

C15_Witness ==
    \E t, u, v \in Tasks :
        /\ pc[u] = "panic_no_url"
        /\ pc[v] = "panic_connect"
        /\ pc[t] = "init_ok" /\ DB_POOL = t

\* C16: start_transaction! with DB_POOL empty ends in the 'pool not
\* initialized' panic of get_db_pool: nothing is logged, no Err is returned
\* and no begin is issued.
C16_StartWithoutPoolPanics ==
    [][\A t \in Tasks : (Starts(t, "tx") /\ DB_POOL = NoPool) =>
          /\ pc'[t] = "panic_not_init"
          /\ stderr' = stderr
          /\ ret' = ret
          /\ calls' = calls
          /\ handles' = handles]_vars

C16_Witness ==
    \E t \in Tasks :
        /\ op[t] = "tx" /\ pc[t] = "panic_not_init"
        /\ stderr[t] = <<>> /\ ret[t] = NoErr /\ calls[t] = <<>>
        /\ handles[t] = "none"

\* the driver calls that end a transaction
Terminal == {"commit", "rollback"}

\* the positions of calls[t] that hold a terminal call
TerminalAt(t) == {i \in 1..Len(calls[t]) : calls[t][i] \in Terminal}

\* C11: a transaction handle is consumed by its first commit or rollback,
\* successful or not: the function issues at most one terminal call on it
\* and no call after that one.
C11_HandleConsumedOnce ==
    \A t \in Tasks :
        /\ Cardinality(TerminalAt(t)) <= 1
        /\ \A i \in TerminalAt(t) : i = Len(calls[t])
        /\ handles[t] \in Ended =>
              (TerminalAt(t) # {} /\ pc[t] \in {"tx_done", "ret_ok", "ret_err"})
        /\ pc[t] = "tx_active" => (handles[t] = "active" /\ TerminalAt(t) = {})

C11_Witness ==
    \E t, u \in Tasks :
        /\ handles[t] = "failed" /\ pc[t] = "ret_err"
        /\ calls[t] = <<"begin", "execute", "commit">>
        /\ handles[u] = "rolledback" /\ pc[u] = "ret_ok"
        /\ calls[u] = <<"begin", "query", "rollback">>

\* the number of times a call occurs in what a task issued
Count(t, call) == Cardinality({i \in 1..Len(calls[t]) : calls[t][i] = call})

\* C12: each macro invocation issues exactly one begin, commit or rollback,
\* when it is entered; the step that handles the result, Ok or Err, issues
\* nothing, so a failed operation is never issued again.
C12_NoRetry ==
    /\ [](\A t \in Tasks :
              /\ Count(t, "begin") <= 1
              /\ Count(t, "commit") + Count(t, "rollback") <= 1
              /\ pc[t] = "tx_begin" => Count(t, "begin") = 1
              /\ pc[t] = "tx_commit" => Count(t, "commit") = 1
              /\ pc[t] = "tx_rollback" => Count(t, "rollback") = 1)
    /\ [][\A t \in Tasks :
              /\ pc[t] \in {"tx_begin", "tx_commit", "tx_rollback"} =>
                    calls'[t] = calls[t]
              /\ (pc[t] \in {"tx_begin", "tx_commit", "tx_rollback"}
                  /\ ~reply'[t].ok /\ reply'[t] # reply[t]) => pc'[t] = "ret_err"]_vars

C12_Witness ==
    \E t, u \in Tasks :
        /\ pc[t] = "ret_err" /\ calls[t] = <<"begin">> /\ ~reply[t].ok
        /\ pc[u] = "ret_err" /\ calls[u] = <<"begin", "rollback">> /\ ~reply[u].ok

\* the transaction of task u was ended by rollback_transaction!
EndedByRollback(u) ==
    \/ handles[u] = "rolledback"
    \/ /\ handles[u] = "failed"
       /\ \E i \in 1..Len(stderr[u]) :
             stderr[u][i].msg = "Failed to rollback transaction"

\* C13: a query in a transaction that began after a writing transaction
\* had ended returns that write if commit_transaction! succeeded on it, and
\* does not return it if rollback_transaction! ended it.
C13_CommitVisibleRollbackNot ==
    \A t, u \in Tasks :
        (t # u /\ rd[t] # None /\ u \in base[t]) =>
            /\ handles[u] = "committed" => u \in rd[t][1]
            /\ EndedByRollback(u) => u \notin rd[t][1]

C13_Witness ==
    \E t, u \in Tasks :
        /\ t # u
        /\ handles[u] = "committed" /\ "execute" \in Range(calls[u])
        /\ u \in base[t]
        /\ rd[t] = Some({u})

\* C17: when a macro makes the function return early, no open handle is
\* left: after the early return of start_transaction! no handle exists,
\* after that of commit_transaction! or rollback_transaction! the handle has
\* been consumed by the call that failed.
C17_NoDanglingHandle ==
    \A t \in Tasks :
        pc[t] = "ret_err" =>
            /\ handles[t] # "active"
            /\ handles[t] = "none" <=> calls[t] = <<"begin">>
            /\ handles[t] = "failed" <=> TerminalAt(t) = {Len(calls[t])}
            /\ handles[t] \in {"none", "failed"}

C17_Witness ==
    \E t, u \in Tasks :
        /\ pc[t] = "ret_err" /\ handles[t] = "none"
        /\ stderr[t][1].msg = "Failed to start transaction"
        /\ pc[u] = "ret_err" /\ handles[u] = "failed"
        /\ stderr[u][1].msg = "Failed to commit transaction"

====
